---- MODULE Spec2Model ----
(***************************************************************************)
(* A model of ar5iv2md (src/src/ar5iv2md/__init__.py): the asset          *)
(* localizer, the math normalizer, the bibliography anchor restorer and   *)
(* the top-level run.                                                     *)
(*                                                                         *)
(* Python strings are modelled as sequences of one-character strings, so  *)
(* that splitting, trimming, joining and pattern matching are computed    *)
(* and not assumed.  Python's 0-based list indices become 1-based.        *)
(***************************************************************************)
EXTENDS Integers, Sequences, FiniteSets, TLC

VARIABLES
    \* _add_md_bib_anchors: its arguments, its locals, its return value and
    \* where it stands
    md_text, ids_in_order, lines, i, in_refs, idx, replacements, bib_result, bib_pc,
    \* main and _rewrite_images
    doc,          \* the fetched page: its image nodes, its math nodes and its
                  \* reference list, each in document order
    fs,           \* the output tree: base_dir, its assets directory, README.md
    run,          \* the number of the invocation under way
    pc,           \* where main stands
    soup,         \* the parsed page, as the steps of main have changed it
    pos,          \* the image node the loop of _rewrite_images stands at
    cache,        \* absolute URL -> local path
    stdout, stderr, exit_code,
    fetch_log,    \* the calls of _download made by this invocation
    write_log,    \* the write_bytes calls made by this invocation
    fs_before,    \* the output tree as this invocation found it
    runs,         \* what the finished invocations printed and did
    \* _mathml_to_tex
    math, math_out, math_pc

bibVars == <<md_text, ids_in_order, lines, i, in_refs, idx, replacements,
             bib_result, bib_pc>>

mainVars == <<doc, fs, run, pc, soup, pos, cache, stdout, stderr, exit_code,
              fetch_log, write_log, fs_before, runs>>

mathVars == <<math, math_out, math_pc>>

vars == <<bibVars, mainVars, mathVars>>

\* The variables of a part of the program that a specification does not run.
BibIdle ==
    /\ md_text = <<>> /\ ids_in_order = <<>> /\ lines = <<>> /\ i = 1
    /\ in_refs = FALSE /\ idx = 0 /\ replacements = <<>> /\ bib_result = <<>>
    /\ bib_pc = "idle"

MainIdle ==
    /\ doc = <<>> /\ fs = <<>> /\ run = 0 /\ pc = "idle" /\ soup = <<>> /\ pos = 1
    /\ cache = <<>> /\ stdout = <<>> /\ stderr = <<>> /\ exit_code = -1
    /\ fetch_log = <<>> /\ write_log = <<>> /\ fs_before = <<>> /\ runs = <<>>

MathIdle ==
    /\ math = <<>> /\ math_out = <<>> /\ math_pc = "idle"

(***************************************************************************)
(* Bounds of the model.                                                    *)
(***************************************************************************)
MaxLines == 3
MaxIds == 2
MaxImgs == 3
MaxAnnotations == 2
MaxRuns == 2

(***************************************************************************)
(* Strings.                                                                *)
(***************************************************************************)
Min(a, b) == IF a <= b THEN a ELSE b

Digits == {"0", "1", "2", "3", "4", "5", "6", "7", "8", "9"}

\* The characters str.strip() removes and \s matches, among those a line can
\* hold once the line breaks are split away.
Whitespace == {" ", "\t"}

\* The line boundaries of str.splitlines() within the model's alphabet.
LineBreaks == {"\n", "\r"}

UpperToLower ==
    [c \in {"A", "B", "C", "D", "E", "F", "G", "H", "I", "J", "K", "L", "M",
            "N", "O", "P", "Q", "R", "S", "T", "U", "V", "W", "X", "Y", "Z"} |->
        CASE c = "A" -> "a" [] c = "B" -> "b" [] c = "C" -> "c" [] c = "D" -> "d"
          [] c = "E" -> "e" [] c = "F" -> "f" [] c = "G" -> "g" [] c = "H" -> "h"
          [] c = "I" -> "i" [] c = "J" -> "j" [] c = "K" -> "k" [] c = "L" -> "l"
          [] c = "M" -> "m" [] c = "N" -> "n" [] c = "O" -> "o" [] c = "P" -> "p"
          [] c = "Q" -> "q" [] c = "R" -> "r" [] c = "S" -> "s" [] c = "T" -> "t"
          [] c = "U" -> "u" [] c = "V" -> "v" [] c = "W" -> "w" [] c = "X" -> "x"
          [] c = "Y" -> "y" [] c = "Z" -> "z"]

\* str.lower()
lower(s) == [k \in 1..Len(s) |-> IF s[k] \in DOMAIN UpperToLower
                                  THEN UpperToLower[s[k]] ELSE s[k]]

RECURSIVE lstrip(_)
lstrip(s) == IF s # <<>> /\ Head(s) \in Whitespace \cup LineBreaks
             THEN lstrip(Tail(s)) ELSE s

RECURSIVE rstrip(_)
rstrip(s) == IF s # <<>> /\ s[Len(s)] \in Whitespace \cup LineBreaks
             THEN rstrip(SubSeq(s, 1, Len(s) - 1)) ELSE s

\* str.strip()
strip(s) == rstrip(lstrip(s))

\* str.endswith("\n")
endswith_newline(s) == s # <<>> /\ s[Len(s)] = "\n"

\* str.splitlines(): a line ends at "\n", "\r" or "\r\n"; the breaks are
\* dropped; no empty last line is produced for a text that ends in a break.
\* SplitFrom gives the lines of s from position k on.
RECURSIVE SplitFrom(_, _)
SplitFrom(s, k) ==
    IF k > Len(s) THEN <<>>
    ELSE LET breaks == {j \in k..Len(s) : s[j] \in LineBreaks}
         IN IF breaks = {} THEN <<SubSeq(s, k, Len(s))>>
            ELSE LET b == CHOOSE j \in breaks : \A m \in breaks : j <= m
                     e == IF s[b] = "\r" /\ b < Len(s) /\ s[b + 1] = "\n"
                          THEN b + 1 ELSE b
                 IN <<SubSeq(s, k, b - 1)>> \o SplitFrom(s, e + 1)

splitlines(s) == SplitFrom(s, 1)

\* "\n".join(ls)
RECURSIVE join(_)
join(ls) == IF ls = <<>> THEN <<>>
            ELSE IF Len(ls) = 1 THEN ls[1]
            ELSE ls[1] \o <<"\n">> \o join(Tail(ls))

\* str(n) for n >= 0
RECURSIVE str(_)
str(n) == LET d == CASE n % 10 = 0 -> "0" [] n % 10 = 1 -> "1" [] n % 10 = 2 -> "2"
                     [] n % 10 = 3 -> "3" [] n % 10 = 4 -> "4" [] n % 10 = 5 -> "5"
                     [] n % 10 = 6 -> "6" [] n % 10 = 7 -> "7" [] n % 10 = 8 -> "8"
                     [] OTHER -> "9"
          IN IF n < 10 THEN <<d>> ELSE Append(str(n \div 10), d)

(***************************************************************************)
(* _add_md_bib_anchors: the patterns.                                      *)
(***************************************************************************)
BulletMarkers == {"*", "-"}

\* The most digits the numbered pattern accepts: \d{1,3}.
MaxNumDigits == 3

NoMatch == [ok |-> FALSE]

\* re.match(r"^[\*-] \[(\d{1,d})\]", line); g1 is group(1).  The digits are
\* followed by "]", so at most one length k matches.
match_num_upto(line, d) ==
    IF Len(line) >= 3 /\ line[1] \in BulletMarkers /\ line[2] = " " /\ line[3] = "["
    THEN LET ks == {k \in 1..d :
                      /\ Len(line) >= 4 + k
                      /\ \A j \in 4..(3 + k) : line[j] \in Digits
                      /\ line[4 + k] = "]"}
         IN IF ks = {} THEN NoMatch
            ELSE LET k == CHOOSE k \in ks : TRUE
                 IN [ok |-> TRUE, g1 |-> SubSeq(line, 4, 3 + k)]
    ELSE NoMatch

\* A variant that accepts one digit fewer: \d{1,2}.
match_num_short(line) == match_num_upto(line, MaxNumDigits - 1)

\* re.match(r"^[\*-] \[(\d{1,3})\]", line)
match_num(line) == match_num_upto(line, MaxNumDigits)

\* A variant that knows the "*" marker only: re.match(r"^\* ", line).
match_bullet_star(line) ==
    Len(line) >= 2 /\ line[1] = "*" /\ line[2] = " "

\* re.match(r"^[\*-] ", line)
match_bullet(line) ==
    Len(line) >= 2 /\ line[1] \in BulletMarkers /\ line[2] = " "

\* re.match(r"^([\*-]\s+)(.*)$", line); g1, g2 are group(1), group(2).  \s+ is
\* greedy and the rest holds no whitespace before its first character.
match_lead(line) ==
    IF Len(line) >= 2 /\ line[1] \in BulletMarkers /\ line[2] \in Whitespace
    THEN LET e == CHOOSE e \in 2..Len(line) :
                    /\ \A j \in 2..e : line[j] \in Whitespace
                    /\ (e = Len(line) \/ line[e + 1] \notin Whitespace)
         IN [ok |-> TRUE, g1 |-> SubSeq(line, 1, e),
             g2 |-> SubSeq(line, e + 1, Len(line))]
    ELSE NoMatch

BibPrefix == <<"b", "i", "b", ".", "b", "i", "b">>

\* f'<a id="{rid}" name="{rid}"></a>'
anchor(rid) ==
    <<"<", "a", " ", "i", "d", "=", "\"">> \o rid
      \o <<"\"", " ", "n", "a", "m", "e", "=", "\"">> \o rid
      \o <<"\"", ">", "<", "/", "a", ">">>

\* f'{bullet}<a id="{rid}" name="{rid}"></a>{rest}'
anchored(bullet, rid, rest) == bullet \o anchor(rid) \o rest

(***************************************************************************)
(* _add_md_bib_anchors: the scan.                                          *)
(***************************************************************************)
References == <<"r", "e", "f", "e", "r", "e", "n", "c", "e", "s">>

put(f, k, v) == [x \in DOMAIN f \cup {k} |-> IF x = k THEN v ELSE f[x]]

\* One iteration of the loop over enumerate(lines): st holds in_refs, idx and
\* replacements, n is the index of line.  ids[st.idx + 1] is ids_in_order[idx].
scan_line(st, ids, line, n) ==
    IF ~st.in_refs
    THEN IF lower(strip(line)) = References
         THEN [st EXCEPT !.in_refs = TRUE]
         ELSE st
    ELSE LET mnum == match_num(line)
             mlead == match_lead(line)
         IN IF mnum.ok
            THEN IF mlead.ok
                 THEN [st EXCEPT !.replacements =
                          put(@, n, anchored(mlead.g1, BibPrefix \o mnum.g1, mlead.g2))]
                 ELSE st
            ELSE IF ids # <<>> /\ match_bullet(line)
                 THEN IF st.idx < Len(ids)
                      THEN LET rid == ids[st.idx + 1]
                           IN [in_refs |-> st.in_refs,
                               idx |-> st.idx + 1,
                               replacements |->
                                   IF mlead.ok
                                   THEN put(st.replacements, n,
                                            anchored(mlead.g1, rid, mlead.g2))
                                   ELSE st.replacements]
                      ELSE st
                 ELSE st

\* for i, new_line in replacements.items(): lines[i] = new_line
replaced(ls, reps) ==
    [k \in 1..Len(ls) |-> IF k \in DOMAIN reps THEN reps[k] ELSE ls[k]]

\* "\n".join(lines) + ("\n" if not md_text.endswith("\n") else "")
joined(ls, text) ==
    join(ls) \o (IF ~endswith_newline(text) THEN <<"\n">> ELSE <<>>)

RECURSIVE scan_from(_, _, _, _)
scan_from(st, ids, ls, n) ==
    IF n > Len(ls) THEN st
    ELSE scan_from(scan_line(st, ids, ls[n], n), ids, ls, n + 1)

\* The whole function, as one operator.
_add_md_bib_anchors(text, ids) ==
    LET ls == splitlines(text)
        st == scan_from([in_refs |-> FALSE, idx |-> 0, replacements |-> <<>>],
                        ids, ls, 1)
    IN joined(replaced(ls, st.replacements), text)

(***************************************************************************)
(* The inputs of the anchor restorer.                                      *)
(***************************************************************************)
LRef == <<"R", "e", "f", "e", "r", "e", "n", "c", "e", "s">>
LRefPad == <<"\t", "R", "E", "F", "E", "R", "E", "N", "C", "E", "S", " ">>
LStar == <<"*", " ", "x">>
LDash == <<"-", " ", " ", "y">>
LNum == <<"-", " ", "[", "1", "2", "3", "]", " ", "a">>
LNumLong == <<"*", " ", "[", "1", "2", "3", "4", "]", " ", "b">>
LText == <<"x">>
LEmpty == <<>>
LNoSpace == <<"*", "x">>

LineSet == {LRef, LRefPad, LStar, LDash, LNum, LNumLong, LText, LEmpty, LNoSpace}

Trailers == {<<>>, <<"\n">>, <<"\r", "\n">>}

LineSeqs == UNION {[1..n -> LineSet] : n \in 0..MaxLines}

MdTexts == {join(ls) \o tr : ls \in LineSeqs, tr \in Trailers}

\* el.get("id") of the elements whose id matches ^bib\.bib\d+$, in document
\* order: bib.bib1, bib.bib2, ...
HarvestedIds(m) == [k \in 1..m |-> BibPrefix \o str(k)]

InitBib ==
    /\ md_text \in MdTexts
    /\ ids_in_order \in {HarvestedIds(m) : m \in 0..MaxIds}
    /\ lines = <<>>
    /\ i = 1
    /\ in_refs = FALSE
    /\ idx = 0
    /\ replacements = <<>>
    /\ bib_result = <<>>
    /\ bib_pc = "call"
    /\ MainIdle
    /\ MathIdle

\* lines 151-154
BibEnter ==
    /\ bib_pc = "call"
    /\ lines' = splitlines(md_text)
    /\ i' = 1
    /\ in_refs' = FALSE
    /\ idx' = 0
    /\ replacements' = <<>>
    /\ bib_pc' = "loop"
    /\ UNCHANGED <<md_text, ids_in_order, bib_result, mainVars, mathVars>>

\* lines 155-177, one iteration
BibScanLine ==
    /\ bib_pc = "loop"
    /\ i <= Len(lines)
    /\ LET st == scan_line([in_refs |-> in_refs, idx |-> idx,
                            replacements |-> replacements],
                           ids_in_order, lines[i], i)
       IN /\ in_refs' = st.in_refs
          /\ idx' = st.idx
          /\ replacements' = st.replacements
    /\ i' = i + 1
    /\ UNCHANGED <<md_text, ids_in_order, lines, bib_result, bib_pc, mainVars, mathVars>>

\* lines 178-180
BibReturn ==
    /\ bib_pc = "loop"
    /\ i > Len(lines)
    /\ lines' = replaced(lines, replacements)
    /\ bib_result' = joined(lines', md_text)
    /\ bib_pc' = "done"
    /\ UNCHANGED <<md_text, ids_in_order, i, in_refs, idx, replacements, mainVars,
                   mathVars>>

NextBib == BibEnter \/ BibScanLine \/ BibReturn

SpecBib == InitBib /\ [][NextBib]_vars

(***************************************************************************)
(* The anchor restorer's claims.                                           *)
(***************************************************************************)
\* The lines of the input text, and the index of its marker line (0 if none):
\* the first line that is "references" once trimmed and lower-cased.
OrigLines == splitlines(md_text)

MarkerIndex(ls) ==
    LET ms == {k \in 1..Len(ls) : lower(strip(ls[k])) = References}
    IN IF ms = {} THEN 0 ELSE CHOOSE k \in ms : \A m \in ms : k <= m

AfterMarker(ls) ==
    IF MarkerIndex(ls) = 0 THEN {} ELSE (MarkerIndex(ls) + 1)..Len(ls)

\* The lengths k for which line is a bullet marker, a space and a bracketed
\* number of k digits.
NumberDigits(line) ==
    {k \in 1..Len(line) :
        /\ Len(line) >= 4 + k
        /\ line[1] \in {"*", "-"} /\ line[2] = " " /\ line[3] = "["
        /\ \A j \in 4..(3 + k) : line[j] \in Digits
        /\ line[4 + k] = "]"}

\* A bullet line: a marker followed by a space.
IsBullet(line) == Len(line) >= 2 /\ line[1] \in {"*", "-"} /\ line[2] = " "

\* The length of the bullet marker and the whitespace that follows it.
LeadLen(line) ==
    CHOOSE e \in 2..Len(line) :
        /\ \A j \in 2..e : line[j] \in {" ", "\t"}
        /\ (e = Len(line) \/ line[e + 1] \notin {" ", "\t"})

\* line with the anchor for rid inserted after its bullet marker and whitespace.
WithAnchor(line, rid) ==
    SubSeq(line, 1, LeadLen(line))
      \o <<"<", "a", " ", "i", "d", "=", "\"">> \o rid
      \o <<"\"", " ", "n", "a", "m", "e", "=", "\"">> \o rid
      \o <<"\"", ">", "<", "/", "a", ">">>
      \o SubSeq(line, LeadLen(line) + 1, Len(line))

NumberedAnchor(line, k) ==
    WithAnchor(line, <<"b", "i", "b", ".", "b", "i", "b">> \o SubSeq(line, 4, 3 + k))

\* C1: the output ends with a newline if and only if the input does.
C1_TrailingNewlinePreserved ==
    bib_pc = "done" =>
        (endswith_newline(bib_result) <=> endswith_newline(md_text))

\* The scan of a line after the marker that is numbered with at most d digits
\* leaves the cursor where it is and records the anchor bib.bib<n> for it.
C5_Step(d) ==
    (bib_pc = "loop" /\ i <= Len(lines) /\ in_refs /\ i' = i + 1) =>
        \A k \in NumberDigits(lines[i]) :
            k <= d =>
                /\ idx' = idx
                /\ i \in DOMAIN replacements'
                /\ replacements'[i] = NumberedAnchor(lines[i], k)

\* The returned lines hold that anchor.
C5_Final(d) ==
    bib_pc = "done" =>
        \A j \in AfterMarker(OrigLines) :
            \A k \in NumberDigits(OrigLines[j]) :
                k <= d => lines[j] = NumberedAnchor(OrigLines[j], k)

\* C5 as stated: every line after the marker that starts with a bullet marker
\* and a bracketed number of any number of digits gets the anchor bib.bib<n>
\* right after the bullet marker and its whitespace, whether or not harvested
\* identifiers remain, and does not advance the cursor.
C5_NumberedAnyDigits ==
    [][C5_Step(Len(lines[i]))]_vars

\* C5, amended: the same for a bracketed number of one to three digits.
C5_NumberedUpToThreeDigits ==
    [](C5_Final(3)) /\ [][C5_Step(3)]_vars

\* A numbered line after the marker got its anchor although harvested
\* identifiers were there to take.
C5_Witness ==
    /\ bib_pc = "done"
    /\ ids_in_order # <<>>
    /\ idx = 0
    /\ \E j \in AfterMarker(OrigLines) :
           \E k \in NumberDigits(OrigLines[j]) :
               /\ k <= 3
               /\ lines[j] = NumberedAnchor(OrigLines[j], k)
               /\ lines[j] # OrigLines[j]

\* The bullet lines of the references section, and the position of one of
\* them among them.
RefBullets == {j \in AfterMarker(OrigLines) : IsBullet(OrigLines[j])}

BulletRank(j) == Cardinality({b \in RefBullets : b <= j})

NoneNumbered ==
    \A j \in RefBullets : \A k \in NumberDigits(OrigLines[j]) : k > 3

\* C6: with K bullet lines after the marker, none of them numbered, and M
\* harvested identifiers, the j-th bullet line gets the j-th identifier for
\* j <= M, every other line is returned as it was, min(K, M) anchors are
\* inserted, and the cursor never exceeds M.
C6_HarvestedInOrder ==
    /\ idx <= Len(ids_in_order)
    /\ (bib_pc = "done" /\ NoneNumbered) =>
          LET K == Cardinality(RefBullets)
              M == Len(ids_in_order)
          IN /\ idx = Min(K, M)
             /\ Len(lines) = Len(OrigLines)
             /\ \A j \in 1..Len(OrigLines) :
                    lines[j] = IF j \in RefBullets /\ BulletRank(j) <= M
                               THEN WithAnchor(OrigLines[j], ids_in_order[BulletRank(j)])
                               ELSE OrigLines[j]
             /\ Cardinality({j \in 1..Len(OrigLines) : lines[j] # OrigLines[j]})
                    = Min(K, M)
             /\ \E tr \in {<<>>, <<"\n">>} : bib_result = join(lines) \o tr

\* More bullet lines than identifiers: some got theirs, the rest passed through.
C6_Witness ==
    /\ bib_pc = "done"
    /\ NoneNumbered
    /\ Len(ids_in_order) >= 1
    /\ Cardinality(RefBullets) > Len(ids_in_order)
    /\ idx = Len(ids_in_order)
    /\ \E j \in RefBullets : lines[j] # OrigLines[j]
    /\ \E j \in RefBullets : lines[j] = OrigLines[j]

(***************************************************************************)
(* _mathml_to_tex.                                                         *)
(*                                                                         *)
(* A math node: its annotation and annotation-xml descendants in document  *)
(* order (encoding attribute and text, an absent attribute being ""), its  *)
(* alttext, data-tex and display attributes (absent being ""), and the     *)
(* class lists of its ancestor elements, the parent first; a node whose    *)
(* parent is the BeautifulSoup object has no ancestor element.             *)
(***************************************************************************)
\* sub in s
contains(s, sub) ==
    \E k \in 0..(Len(s) - Len(sub)) : SubSeq(s, k + 1, k + Len(sub)) = sub

\* " ".join(ls)
RECURSIVE join_space(_)
join_space(ls) == IF ls = <<>> THEN <<>>
                  ELSE IF Len(ls) = 1 THEN ls[1]
                  ELSE ls[1] \o <<" ">> \o join_space(Tail(ls))

Tex == <<"t", "e", "x">>
Block == <<"b", "l", "o", "c", "k">>

\* ["ltx_display", "ltx_equation", "ltx_equationgroup"]
display_keys ==
    { <<"l", "t", "x", "_", "d", "i", "s", "p", "l", "a", "y">>,
      <<"l", "t", "x", "_", "e", "q", "u", "a", "t", "i", "o", "n">>,
      <<"l", "t", "x", "_", "e", "q", "u", "a", "t", "i", "o", "n", "g", "r", "o", "u", "p">> }

\* lines 117-121: the text of the first annotation whose encoding holds "tex",
\* or None
annotation_tex(anns) ==
    LET hits == {k \in 1..Len(anns) : contains(lower(anns[k].encoding), Tex)}
    IN IF hits = {} THEN [found |-> FALSE, text |-> <<>>]
       ELSE [found |-> TRUE,
             text |-> anns[CHOOSE k \in hits : \A h \in hits : k <= h].text]

\* lines 116-123: tex, an absent attribute and None being the empty string
tex_source(m) ==
    LET a == annotation_tex(m.annotations)
    IN IF a.found THEN a.text
       ELSE IF m.alttext # <<>> THEN m.alttext ELSE m.datatex

\* A variant that never looks at the parent.
is_block_display_only(m) == lower(m.display) = Block

\* lines 126-136
is_block(m) ==
    \/ lower(m.display) = Block
    \/ /\ m.ancestors # <<>>
       /\ \E k \in display_keys : contains(join_space(m.ancestors[1]), k)

\* line 138
rendered(m) ==
    LET tex == strip(tex_source(m))
    IN IF is_block(m) \/ contains(tex, <<"\n">>)
       THEN <<"\n", "$", "$", "\n">> \o tex \o <<"\n", "$", "$", "\n">>
       ELSE <<"$">> \o tex \o <<"$">>

(***************************************************************************)
(* The math nodes.                                                         *)
(***************************************************************************)
Encodings ==
    { <<"a", "p", "p", "l", "i", "c", "a", "t", "i", "o", "n", "/", "x", "-", "t", "e", "x">>,
      <<"T", "e", "X">>,
      <<"M", "a", "t", "h", "M", "L", "-", "C", "o", "n", "t", "e", "n", "t">> }

Sources == {<<>>, <<" ">>, <<" ", "x", "\n">>, <<"x", "\n", "y">>}

Annotations == [encoding : Encodings, text : Sources]

AnnotationLists == UNION {[1..n -> Annotations] : n \in 0..MaxAnnotations}

Displays == {<<>>, <<"b", "l", "o", "c", "k">>, <<"B", "L", "O", "C", "K">>, <<"i", "n", "l", "i", "n", "e">>}

ClassLists ==
    { <<>>,
      <<<<"l", "t", "x", "_", "p">>>>,
      <<<<"l", "t", "x", "_", "e", "q", "n", "_", "c", "e", "l", "l">>, <<"l", "t", "x", "_", "d", "i", "s", "p", "l", "a", "y">>>>,
      <<<<"l", "t", "x", "_", "e", "q", "u", "a", "t", "i", "o", "n">>>>,
      <<<<"l", "t", "x", "_", "e", "q", "u", "a", "t", "i", "o", "n", "g", "r", "o", "u", "p">>, <<"l", "t", "x", "_", "p">>>>,
      <<<<"n", "o", "t", "_", "l", "t", "x", "_", "d", "i", "s", "p", "l", "a", "y">>>> }

\* The parent is the BeautifulSoup object, or an element under it, or an
\* element under an element.
AncestorLists ==
    {<<>>} \cup {<<c>> : c \in ClassLists}
      \cup {<<<<<<"l", "t", "x", "_", "p">>>>, d>> : d \in {<<>>, <<<<"l", "t", "x", "_", "e", "q", "u", "a", "t", "i", "o", "n">>>>}}

MathNodes ==
    [annotations : AnnotationLists, alttext : {<<>>, <<"a">>, <<" ">>},
     datatex : {<<>>, <<"d">>}, display : Displays, ancestors : AncestorLists]

InitMath ==
    /\ math \in MathNodes
    /\ math_out = <<>>
    /\ math_pc = "node"
    /\ BibIdle
    /\ MainIdle

\* lines 116-125: no TeX source, the node stays
MathContinue ==
    /\ math_pc = "node"
    /\ tex_source(math) = <<>>
    /\ math_pc' = "done"
    /\ UNCHANGED <<math, math_out, bibVars, mainVars>>

\* lines 116-139: m.replace_with(NavigableString(rep))
MathReplace ==
    /\ math_pc = "node"
    /\ tex_source(math) # <<>>
    /\ math_out' = <<rendered(math)>>
    /\ math_pc' = "done"
    /\ UNCHANGED <<math, bibVars, mainVars>>

NextMath == MathContinue \/ MathReplace

SpecMath == InitMath /\ [][NextMath]_vars

(***************************************************************************)
(* URLs, image references and file names.                                  *)
(*                                                                         *)
(* An absolute URL is a host and a path, the path a sequence of segments   *)
(* ("http://h/d/a.p" has the segments "d" and "a.p"; a path that ends in   *)
(* "/" has an empty last segment).  The text of a src attribute is an      *)
(* absolute URL ("abs"), a path from the root ("root"), a path relative to *)
(* the page ("rel"), a data: URL ("data") or nothing ("empty"), with or    *)
(* without white space around it (pad).                                    *)
(***************************************************************************)
SegD == <<"d">>
SegE == <<"e">>
SegPage == <<"p", "g">>
NameAP == <<"a", ".", "p">>
NameImage == <<"i", "m", "a", "g", "e">>

Src(kind, host, path, pad) ==
    [kind |-> kind, host |-> host, path |-> path, pad |-> pad]

\* res.geturl() of the page: "http://h/d/pg"
base_url == [host |-> "h", path |-> <<SegD, SegPage>>]

\* f"assets/{name}"
rel_path(name) == Src("rel", "", <<<<"a", "s", "s", "e", "t", "s">>, name>>, FALSE)

\* str.strip() of a src attribute
strip_src(s) == [s EXCEPT !.pad = FALSE]

\* urljoin(base_url, src) for a stripped src that is not empty
urljoin(base, s) ==
    CASE s.kind = "abs" -> [host |-> s.host, path |-> s.path]
      [] s.kind = "root" -> [host |-> base.host, path |-> s.path]
      [] OTHER -> [host |-> base.host,
                   path |-> SubSeq(base.path, 1, Len(base.path) - 1) \o s.path]

\* os.path.basename(urlparse(abs_url).path) or "image"
basename_or_image(u) ==
    IF u.path = <<>> \/ u.path[Len(u.path)] = <<>>
    THEN NameImage
    ELSE u.path[Len(u.path)]

\* os.path.splitext(base): the extension starts at the last dot, unless only
\* dots come before it.
splitext(base) ==
    LET dots == {k \in 1..Len(base) : base[k] = "."}
    IN IF dots = {} THEN <<base, <<>>>>
       ELSE LET d == CHOOSE k \in dots : \A m \in dots : m <= k
            IN IF \E k \in 1..(d - 1) : base[k] # "."
               THEN <<SubSeq(base, 1, d - 1), SubSeq(base, d, Len(base))>>
               ELSE <<base, <<>>>>

DotBin == <<".", "b", "i", "n">>

\* the loop of _unique_name: directory is the set of the names that exist
RECURSIVE unique_from(_, _, _, _, _)
unique_from(directory, stem, ext, n, candidate) ==
    IF candidate \in directory
    THEN unique_from(directory, stem, ext, n + 1, stem \o <<"-">> \o str(n) \o ext)
    ELSE candidate

\* A variant without the loop: the first candidate, whether it exists or not.
_unique_name_first(directory, base) ==
    LET se == splitext(base)
    IN se[1] \o (IF se[2] = <<>> THEN DotBin ELSE se[2])

_unique_name(directory, base) ==
    LET se == splitext(base)
        stem == se[1]
        ext == IF se[2] = <<>> THEN DotBin ELSE se[2]
    IN unique_from(directory, stem, ext, 1, stem \o ext)

\* A variant that never finds a URL in the cache.
cache_hit_never(c, u) == FALSE

\* abs_url in cache
cache_hit(c, u) == u \in DOMAIN c

(***************************************************************************)
(* The pages and the output trees the runs start from.                     *)
(***************************************************************************)
RawSrcs ==
    { Src("rel", "", <<NameAP>>, FALSE),          \* "a.p"
      Src("abs", "h", <<SegD, NameAP>>, FALSE),   \* "http://h/d/a.p"
      Src("root", "", <<SegE, NameAP>>, TRUE),    \* " /e/a.p "
      Src("abs", "g", <<NameAP>>, FALSE),         \* "http://g/a.p"
      Src("abs", "g", <<<<>>>>, FALSE),           \* "http://g/"
      Src("data", "", <<>>, FALSE) }              \* "data:..."

\* An image node: its src attribute, and whether it stands in a page footer.
ImgNodes ==
    {[src |-> s, footer |-> FALSE] : s \in RawSrcs}
      \cup {[src |-> Src("abs", "g", <<NameAP>>, FALSE), footer |-> TRUE]}

\* <p><math alttext="x">...</math></p>
MathX ==
    [annotations |-> <<>>, alttext |-> <<"x">>, datatex |-> <<>>,
     display |-> <<>>, ancestors |-> <<<<>>>>]

\* A math node without a TeX source, and after it one in a display equation
\* whose TeX annotation is a space while its alttext is "y".
MathBare ==
    [annotations |-> <<>>, alttext |-> <<>>, datatex |-> <<>>,
     display |-> <<>>, ancestors |-> <<<<>>>>]

MathBlank ==
    [annotations |-> <<[encoding |-> <<"T", "e", "X">>, text |-> <<" ">>]>>,
     alttext |-> <<"y">>, datatex |-> <<>>, display |-> <<>>,
     ancestors |-> <<<<<<"l", "t", "x", "_", "e", "q", "u", "a", "t", "i", "o", "n">>>>>>]

\* A math node of the page: the element, and the string that stands in its
\* place once replace_with has been called (out holds it; empty before).
Parsed(m) == [node |-> m, out |-> <<>>]

\* <li id="...">text</li>
Li(id, text) == [id |-> id, text |-> text]

\* The reference list of a page: whether a "References" heading stands before
\* it, and its items.
NoRefs == [heading |-> FALSE, items |-> <<>>]

\* Nothing parsed yet.
NoPage == [imgs |-> <<>>, maths |-> <<>>, refs |-> NoRefs]

\* What a page holds besides its images: nothing; or three math nodes and a
\* reference list of three items, the first with an id of another kind, the
\* last numbered.
PageRests ==
    { [maths |-> <<>>, refs |-> NoRefs],
      [maths |-> <<Parsed(MathX), Parsed(MathBare), Parsed(MathBlank)>>,
       refs |-> [heading |-> TRUE,
                 items |-> <<Li(<<"x">>, <<"r", "0">>),
                             Li(BibPrefix \o <<"1">>, <<"r", "1">>),
                             Li(BibPrefix \o <<"7">>, <<"[", "7", "]", " ", "r">>)>>]] }

Docs ==
    {[imgs |-> im, maths |-> r.maths, refs |-> r.refs] :
        im \in UNION {[1..n -> ImgNodes] : n \in 0..MaxImgs}, r \in PageRests}

\* What the n-th call of _download in a run returns when it returns: bytes of
\* its own, so that the content of a file tells which call it came from.
Bytes(u, n) == <<u, n>>

NoFiles == <<>>

Tree(base, other, assets) ==
    [base |-> base, other |-> other, assets |-> assets, files |-> NoFiles,
     readme |-> <<>>]

\* base_dir absent, present and empty, present with something in it
StartTrees == {Tree(FALSE, FALSE, FALSE), Tree(TRUE, FALSE, FALSE),
               Tree(TRUE, TRUE, FALSE)}

\* A variant that looks for downloaded assets only.
has_contents_assets(t) == t.base /\ DOMAIN t.files # {}

\* base_dir.exists() and any(base_dir.iterdir())
has_contents(t) == t.base /\ (t.other \/ t.assets \/ t.readme # <<>>)

\* base_dir / "README.md"
out_path == <<"out", "2401.00001", "README.md">>

Line(kind, about) == [kind |-> kind, about |-> about]

\* soup.select(...): el.decompose()
NotInFooter(n) == ~n.footer
_strip_footer(nodes) == SelectSeq(nodes, NotInFooter)

\* lines 115-139 for the math nodes of the page, each in its turn
replace_with(m) == IF tex_source(m) = <<>> THEN <<>> ELSE <<rendered(m)>>

_mathml_to_tex(maths) ==
    [k \in 1..Len(maths) |-> [maths[k] EXCEPT !.out = replace_with(maths[k].node)]]

\* re.compile(r"^bib\.bib\d+$"): "$" also matches before a last line feed
is_bib_id(id) ==
    LET n == IF endswith_newline(id) THEN Len(id) - 1 ELSE Len(id)
    IN /\ n > Len(BibPrefix)
       /\ SubSeq(id, 1, Len(BibPrefix)) = BibPrefix
       /\ \A k \in (Len(BibPrefix) + 1)..n : id[k] \in Digits

HasBibId(li) == is_bib_id(li.id)

\* lines 211-215
bib_ids(page) ==
    LET found == SelectSeq(page.refs.items, HasBibId)
    IN [k \in 1..Len(found) |-> found[k].id]

\* "/".join(ls)
RECURSIVE join_slash(_)
join_slash(ls) == IF ls = <<>> THEN <<>>
                  ELSE IF Len(ls) = 1 THEN ls[1]
                  ELSE ls[1] \o <<"/">> \o join_slash(Tail(ls))

\* The text of a src attribute.
src_text(s) ==
    LET body == CASE s.kind = "abs" ->
                       <<"h", "t", "t", "p", ":", "/", "/", s.host, "/">>
                         \o join_slash(s.path)
                  [] s.kind = "root" -> <<"/">> \o join_slash(s.path)
                  [] s.kind = "rel" -> join_slash(s.path)
                  [] s.kind = "data" -> <<"d", "a", "t", "a", ":">>
                  [] OTHER -> <<>>
    IN IF s.pad THEN <<" ">> \o body \o <<" ">> ELSE body

\* ![](src)
ImageLine(s) == <<"!", "[", "]", "(">> \o src_text(s) \o <<")">>

RECURSIVE concat(_)
concat(ls) == IF ls = <<>> THEN <<>> ELSE ls[1] \o <<"\n">> \o concat(Tail(ls))

\* md(str(soup)), the converter of markdownify: a line for each image, the
\* text that stands for each math node (nothing for a node left in place),
\* the heading of the reference list and a "* " line for each of its items,
\* each followed by a line feed
md(page) ==
    concat([k \in 1..Len(page.imgs) |-> ImageLine(page.imgs[k].src)]
           \o [k \in 1..Len(page.maths) |->
                  IF page.maths[k].out = <<>> THEN <<>> ELSE page.maths[k].out[1]]
           \o (IF page.refs.heading THEN <<LRef>> ELSE <<>>)
           \o [k \in 1..Len(page.refs.items) |->
                  <<"*", " ">> \o page.refs.items[k].text])

(***************************************************************************)
(* main and _rewrite_images.                                               *)
(***************************************************************************)
InitMain ==
    /\ doc \in Docs
    /\ fs \in StartTrees
    /\ run = 1
    /\ pc = "fetch"
    /\ soup = NoPage
    /\ pos = 1
    /\ cache = <<>>
    /\ stdout = <<>>
    /\ stderr = <<>>
    /\ exit_code = -1
    /\ fetch_log = <<>>
    /\ write_log = <<>>
    /\ fs_before = fs
    /\ runs = <<>>
    /\ BibIdle
    /\ MathIdle

\* lines 191-195: _fetch raises
MainFetchFail ==
    /\ pc = "fetch"
    /\ stderr' = Append(stderr, Line("failed to fetch", <<>>))
    /\ exit_code' = 1
    /\ pc' = "done"
    /\ UNCHANGED <<doc, fs, run, soup, pos, cache, stdout, fetch_log, write_log,
                   fs_before, runs, bibVars, mathVars>>

\* lines 192, 197-199: _fetch returns the page
MainFetchOk ==
    /\ pc = "fetch"
    /\ soup' = doc
    /\ pc' = "check"
    /\ UNCHANGED <<doc, fs, run, pos, cache, stdout, stderr, exit_code, fetch_log,
                   write_log, fs_before, runs, bibVars, mathVars>>

\* lines 201-205
MainSkip ==
    /\ pc = "check"
    /\ has_contents(fs)
    /\ stdout' = Append(stdout, out_path)
    /\ stderr' = Append(stderr, Line("warn: output directory not empty, skip", <<>>))
    /\ exit_code' = 0
    /\ pc' = "done"
    /\ UNCHANGED <<doc, fs, run, soup, pos, cache, fetch_log, write_log, fs_before,
                   runs, bibVars, mathVars>>

\* lines 201, 206-207
MainStripFooter ==
    /\ pc = "check"
    /\ ~has_contents(fs)
    /\ soup' = [soup EXCEPT !.imgs = _strip_footer(@)]
    /\ pc' = "rewrite"
    /\ UNCHANGED <<doc, fs, run, pos, cache, stdout, stderr, exit_code, fetch_log,
                   write_log, fs_before, runs, bibVars, mathVars>>

\* lines 91-92: assets_dir.mkdir(parents=True, exist_ok=True); cache = {}
RewriteImagesEnter ==
    /\ pc = "rewrite"
    /\ fs' = [fs EXCEPT !.base = TRUE, !.assets = TRUE]
    /\ cache' = <<>>
    /\ pos' = 1
    /\ pc' = "images"
    /\ UNCHANGED <<doc, run, soup, stdout, stderr, exit_code, fetch_log, write_log,
                   fs_before, runs, bibVars, mathVars>>

\* lines 94-96: no src, or a data: URL
ImgSkip ==
    /\ pc = "images"
    /\ pos <= Len(soup.imgs)
    /\ strip_src(soup.imgs[pos].src).kind \in {"empty", "data"}
    /\ pos' = pos + 1
    /\ UNCHANGED <<doc, fs, run, pc, soup, cache, stdout, stderr, exit_code,
                   fetch_log, write_log, fs_before, runs, bibVars, mathVars>>

\* lines 97-100
ImgCacheHit ==
    /\ pc = "images"
    /\ pos <= Len(soup.imgs)
    /\ strip_src(soup.imgs[pos].src).kind \notin {"empty", "data"}
    /\ LET abs_url == urljoin(base_url, strip_src(soup.imgs[pos].src))
       IN /\ cache_hit(cache, abs_url)
          /\ soup' = [soup EXCEPT !.imgs[pos].src = cache[abs_url]]
    /\ pos' = pos + 1
    /\ UNCHANGED <<doc, fs, run, pc, cache, stdout, stderr, exit_code, fetch_log,
                   write_log, fs_before, runs, bibVars, mathVars>>

\* A variant in which a failed download ends the run.
ImgDownloadFailAborts ==
    /\ pc = "images"
    /\ pos <= Len(soup.imgs)
    /\ strip_src(soup.imgs[pos].src).kind \notin {"empty", "data"}
    /\ LET abs_url == urljoin(base_url, strip_src(soup.imgs[pos].src))
       IN /\ ~cache_hit(cache, abs_url)
          /\ fetch_log' = Append(fetch_log, [node |-> pos, url |-> abs_url,
                                             ok |-> FALSE, data |-> <<>>])
          /\ stderr' = Append(stderr, Line("warn: failed to download image", abs_url))
    /\ exit_code' = 1
    /\ pc' = "done"
    /\ UNCHANGED <<doc, fs, run, soup, pos, cache, stdout, write_log,
                   fs_before, runs, bibVars, mathVars>>

\* lines 97-98, 101-107: _download raises
ImgDownloadFail ==
    /\ pc = "images"
    /\ pos <= Len(soup.imgs)
    /\ strip_src(soup.imgs[pos].src).kind \notin {"empty", "data"}
    /\ LET abs_url == urljoin(base_url, strip_src(soup.imgs[pos].src))
       IN /\ ~cache_hit(cache, abs_url)
          /\ fetch_log' = Append(fetch_log, [node |-> pos, url |-> abs_url,
                                             ok |-> FALSE, data |-> <<>>])
          /\ stderr' = Append(stderr, Line("warn: failed to download image", abs_url))
    /\ pos' = pos + 1
    /\ UNCHANGED <<doc, fs, run, pc, soup, cache, stdout, exit_code, write_log,
                   fs_before, runs, bibVars, mathVars>>

\* lines 97-98, 101-104, 108-111: _download returns data
ImgDownloadOk ==
    /\ pc = "images"
    /\ pos <= Len(soup.imgs)
    /\ strip_src(soup.imgs[pos].src).kind \notin {"empty", "data"}
    /\ LET abs_url == urljoin(base_url, strip_src(soup.imgs[pos].src))
           name == _unique_name(DOMAIN fs.files, basename_or_image(abs_url))
           rel == rel_path(name)
           data == Bytes(abs_url, Len(fetch_log) + 1)
       IN /\ ~cache_hit(cache, abs_url)
          /\    /\ fetch_log' = Append(fetch_log, [node |-> pos, url |-> abs_url,
                                                   ok |-> TRUE, data |-> data])
                /\ write_log' = Append(write_log,
                                       [node |-> pos, url |-> abs_url, name |-> name,
                                        data |-> data,
                                        existed |-> name \in DOMAIN fs.files])
                /\ fs' = [fs EXCEPT !.files = put(@, name, data)]
          /\ soup' = [soup EXCEPT !.imgs[pos].src = rel]
          /\ cache' = put(cache, abs_url, rel)
    /\ pos' = pos + 1
    /\ UNCHANGED <<doc, run, pc, stdout, stderr, exit_code, fs_before, runs,
                   bibVars, mathVars>>

\* The loop of _rewrite_images has come to its end.
ImagesDone == pc = "images" /\ pos > Len(soup.imgs)

\* lines 209-224: _mathml_to_tex(soup); bib_ids; md_text = md(str(soup));
\* _add_md_bib_anchors(md_text, bib_ids) if bib_ids; write_text; print.
\* math and math_out are the last node of the loop of _mathml_to_tex and what
\* stands in its place; md_text and ids_in_order are what main computed, and
\* bib_result what _add_md_bib_anchors returned, if it was called.
MainWrite ==
    /\ ImagesDone
    /\ soup' = [soup EXCEPT !.maths = _mathml_to_tex(@)]
    /\ IF soup.maths = <<>>
       THEN UNCHANGED mathVars
       ELSE /\ math' = soup.maths[Len(soup.maths)].node
            /\ math_out' = soup'.maths[Len(soup.maths)].out
            /\ math_pc' = "done"
    /\ LET after == [soup EXCEPT !.maths = _mathml_to_tex(@)]
           ids == bib_ids(after)
       IN /\ md_text' = md(after)
          /\ ids_in_order' = ids
          /\ IF ids = <<>>
             THEN /\ bib_result' = <<>>
                  /\ bib_pc' = "idle"
                  /\ fs' = [fs EXCEPT !.base = TRUE, !.readme = <<md_text'>>]
             ELSE /\ bib_result' = _add_md_bib_anchors(md(after), ids)
                  /\ bib_pc' = "done"
                  /\ fs' = [fs EXCEPT !.base = TRUE, !.readme = <<bib_result'>>]
    /\ UNCHANGED <<lines, i, in_refs, idx, replacements>>
    /\ stdout' = Append(stdout, out_path)
    /\ exit_code' = 0
    /\ pc' = "done"
    /\ UNCHANGED <<doc, run, pos, cache, stderr, fetch_log, write_log,
                   fs_before, runs>>

\* A step of main before the images are done.
ImageStep ==
    \/ MainFetchFail
    \/ MainFetchOk
    \/ MainSkip
    \/ MainStripFooter
    \/ RewriteImagesEnter
    \/ ImgSkip
    \/ ImgCacheHit
    \/ ImgDownloadFail
    \/ ImgDownloadOk

\* What an invocation that has ended printed and did.
Summary ==
    [stdout |-> stdout, stderr |-> stderr, exit_code |-> exit_code,
     fs_before |-> fs_before, fs_after |-> fs]

\* The program is run again, for the same source and output directory.
NextRun ==
    /\ pc = "done"
    /\ run < MaxRuns
    /\ runs' = Append(runs, Summary)
    /\ run' = run + 1
    /\ pc' = "fetch"
    /\ soup' = NoPage
    /\ pos' = 1
    /\ cache' = <<>>
    /\ stdout' = <<>>
    /\ stderr' = <<>>
    /\ exit_code' = -1
    /\ fetch_log' = <<>>
    /\ write_log' = <<>>
    /\ fs_before' = fs
    /\ md_text' = <<>> /\ ids_in_order' = <<>> /\ lines' = <<>> /\ i' = 1
    /\ in_refs' = FALSE /\ idx' = 0 /\ replacements' = <<>> /\ bib_result' = <<>>
    /\ bib_pc' = "idle"
    /\ math' = <<>> /\ math_out' = <<>> /\ math_pc' = "idle"
    /\ UNCHANGED <<doc, fs>>

Next ==
    \/ ImageStep
    \/ MainWrite
    \/ NextRun

Init == InitMain

Spec == Init /\ [][Next]_vars

(***************************************************************************)
(* The asset localizer's and the run's claims.                             *)
(***************************************************************************)
\* The image nodes the localizer is given, as the page had them; those with
\* a reference to fetch; the absolute URL of one of them.
OrigNodes == _strip_footer(doc.imgs)

Candidates == {k \in 1..Len(OrigNodes) : OrigNodes[k].src.kind \notin {"empty", "data"}}

UrlOf(k) == urljoin(base_url, strip_src(OrigNodes[k].src))

DistinctUrls == \A j, k \in Candidates : j # k => UrlOf(j) # UrlOf(k)

\* The invocation under way got the page, found the target directory absent
\* or empty, and has ended.
RanToEnd ==
    /\ pc = "done"
    /\ ~has_contents(fs_before)
    /\ \A n \in 1..Len(stderr) : stderr[n].kind # "failed to fetch"

Fetches(u) == {n \in 1..Len(fetch_log) : fetch_log[n].url = u}
Writes(u) == {n \in 1..Len(write_log) : write_log[n].url = u}
Failed == {n \in 1..Len(fetch_log) : ~fetch_log[n].ok}

\* assets/<name>
LocalPath(name) ==
    [kind |-> "rel", host |-> "", pad |-> FALSE,
     path |-> <<<<"a", "s", "s", "e", "t", "s">>, name>>]

\* C2: within one run _download is called at most once for each absolute URL,
\* whether its calls succeed or fail.
C2_FetchedAtMostOnce ==
    \A a, b \in 1..Len(fetch_log) :
        a # b => fetch_log[a].url # fetch_log[b].url

\* C3 as stated: two image nodes with the same absolute URL end with exactly
\* one asset file written for that URL and with the same local src.
C3_OneFileBothPoint ==
    RanToEnd =>
        \A j, k \in Candidates :
            (j < k /\ UrlOf(j) = UrlOf(k)) =>
                /\ Cardinality(Writes(UrlOf(j))) = 1
                /\ soup.imgs[j].src = soup.imgs[k].src
                /\ \E name \in DOMAIN fs.files : soup.imgs[j].src = LocalPath(name)

\* C3, amended: at most one asset file is written for a URL.  If a fetch of
\* the URL succeeds, exactly one file is written, and the node whose fetch
\* succeeded and every later node with that URL have the same local src
\* assets/<name>, while the nodes before it keep the src they had.  If no
\* fetch of it succeeds, no file is written and every node keeps its src.
C3_OneFileOnceFetched ==
    RanToEnd =>
        \A j \in Candidates :
            LET u == UrlOf(j)
                ok == {n \in Fetches(u) : fetch_log[n].ok}
            IN /\ Cardinality(Writes(u)) <= 1
               /\ Cardinality(ok) = Cardinality(Writes(u))
               /\ IF ok = {}
                  THEN soup.imgs[j].src = OrigNodes[j].src
                  ELSE LET first == fetch_log[CHOOSE n \in ok : TRUE].node
                           name == write_log[CHOOSE n \in Writes(u) : TRUE].name
                       IN /\ name \in DOMAIN fs.files
                          /\ soup.imgs[j].src = IF j >= first THEN LocalPath(name)
                                           ELSE OrigNodes[j].src

\* Two nodes whose src texts differ and whose URL is the same point to the
\* one file written for it.
C3_Witness ==
    /\ RanToEnd
    /\ \E j, k \in Candidates :
          /\ j < k
          /\ UrlOf(j) = UrlOf(k)
          /\ OrigNodes[j].src # OrigNodes[k].src
          /\ Cardinality(Writes(UrlOf(j))) = 1
          /\ soup.imgs[j].src = soup.imgs[k].src
          /\ \E name \in DOMAIN fs.files : soup.imgs[j].src = LocalPath(name)

\* The k-th name for a basename: stem+ext, stem-1+ext, stem-2+ext, ..., the
\* extension being what follows the last dot, ".bin" if there is no dot.
KthName(base, k) ==
    LET dots == {d \in 2..Len(base) : base[d] = "."}
        dot == IF dots = {} THEN Len(base) + 1
               ELSE CHOOSE d \in dots : \A e \in dots : e <= d
        stem == SubSeq(base, 1, dot - 1)
        ext == IF dots = {} THEN <<".", "b", "i", "n">>
               ELSE SubSeq(base, dot, Len(base))
    IN IF k = 1 THEN stem \o ext ELSE stem \o <<"-">> \o str(k - 1) \o ext

\* The images of the page have distinct URLs with one and the same candidate
\* basename, and every fetch succeeded.
SameBasenameAllFetched ==
    /\ RanToEnd
    /\ DistinctUrls
    /\ Failed = {}
    /\ \A j, k \in Candidates :
          basename_or_image(UrlOf(j)) = basename_or_image(UrlOf(k))

\* C4: N images with distinct URLs and identical candidate basenames, all
\* fetched, are written in document order to stem+ext, stem-1+ext, ...; and
\* no write ever goes to a file that exists.
C4_UniqueNames ==
    /\ \A n \in 1..Len(write_log) : ~write_log[n].existed
    /\ SameBasenameAllFetched =>
          /\ Len(write_log) = Cardinality(Candidates)
          /\ Cardinality(DOMAIN fs.files) = Cardinality(Candidates)
          /\ \A n \in 1..Len(write_log) :
                LET k == write_log[n].node
                    name == KthName(basename_or_image(UrlOf(k)), n)
                IN /\ k \in Candidates
                   /\ Cardinality({c \in Candidates : c <= k}) = n
                   /\ write_log[n].name = name
                   /\ name \in DOMAIN fs.files
                   /\ fs.files[name] = write_log[n].data
                   /\ soup.imgs[k].src = LocalPath(name)

\* Three images of one basename went to a.p, a-1.p and a-2.p.
C4_Witness ==
    /\ SameBasenameAllFetched
    /\ Len(write_log) = 3
    /\ write_log[1].name = <<"a", ".", "p">>
    /\ write_log[2].name = <<"a", "-", "1", ".", "p">>
    /\ write_log[3].name = <<"a", "-", "2", ".", "p">>

\* C9: a run that has not ended has a step of the image loop to take or has
\* come to the end of that loop, where the page is written; a run that got
\* the page and was not skipped ends with status zero, having written
\* README.md, which begins with the image lines of the page as the localizer
\* left them, and printed its path, whatever image fetches failed, and only a
\* failed fetch of the page ends a run with another status.  With n images of
\* distinct URLs, f of them failing: n - f nodes are rewritten to
\* assets/<name>, each with the bytes fetched for it on disk; the f others
\* keep their src and make no file; stderr has f warning lines.
C9_FetchFailuresDoNotAbort ==
    /\ pc # "done" => (exit_code = -1 /\ (ImagesDone \/ ENABLED ImageStep))
    /\ (pc = "done" /\ exit_code # 0) =>
          /\ fetch_log = <<>>
          /\ \E n \in 1..Len(stderr) : stderr[n].kind = "failed to fetch"
    /\ RanToEnd =>
          /\ exit_code = 0
          /\ stdout = <<out_path>>
          /\ Len(fs.readme) = 1
          /\ LET head == concat([k \in 1..Len(soup.imgs) |->
                                     ImageLine(soup.imgs[k].src)])
             IN SubSeq(fs.readme[1], 1, Len(head)) = head
    /\ (RanToEnd /\ DistinctUrls) =>
          LET n == Cardinality(Candidates)
              f == Cardinality(Failed)
              rewritten == {k \in 1..Len(soup.imgs) : soup.imgs[k].src # OrigNodes[k].src}
          IN /\ Len(fetch_log) = n
             /\ Cardinality(rewritten) = n - f
             /\ Cardinality(DOMAIN fs.files) = n - f
             /\ \A e \in 1..Len(fetch_log) :
                   LET k == fetch_log[e].node
                   IN IF fetch_log[e].ok
                      THEN \E name \in DOMAIN fs.files :
                              /\ soup.imgs[k].src = LocalPath(name)
                              /\ fs.files[name] = fetch_log[e].data
                      ELSE soup.imgs[k].src = OrigNodes[k].src
             /\ Len(stderr) = f
             /\ \A m \in 1..Len(stderr) :
                   /\ stderr[m].kind = "warn: failed to download image"
                   /\ \E e \in Failed : stderr[m].about = fetch_log[e].url

\* One fetch among three failed: two assets, one reference left, one warning.
C9_Witness ==
    /\ RanToEnd
    /\ DistinctUrls
    /\ Cardinality(Candidates) = 3
    /\ Cardinality(Failed) = 1
    /\ Cardinality(DOMAIN fs.files) = 2
    /\ Len(stderr) = 1
    /\ exit_code = 0
    /\ fs.readme # <<>>

\* The first invocation started from an absent or empty target directory and
\* got the page.
FirstRunWrote ==
    /\ run >= 2
    /\ ~has_contents(runs[1].fs_before)
    /\ runs[1].exit_code = 0

SkipWarning == [kind |-> "warn: output directory not empty, skip", about |-> <<>>]

\* C10: after a first run from an absent or empty target directory, a later
\* run for the same source and output directory writes nothing at any point,
\* and, once it has got the page, prints the path the first run printed and
\* the skip warning, which the first run did not print.
C10_SecondRunWritesNothing ==
    FirstRunWrote =>
        /\ fs = fs_before
        /\ fs = runs[1].fs_after
        /\ write_log = <<>>
        /\ fetch_log = <<>>
        /\ (pc = "done" /\ exit_code = 0) =>
              /\ stdout = runs[1].stdout
              /\ stdout = <<<<"out", "2401.00001", "README.md">>>>
              /\ \E n \in 1..Len(stderr) : stderr[n] = SkipWarning
              /\ \A n \in 1..Len(runs[1].stderr) : runs[1].stderr[n] # SkipWarning

\* The second run was skipped after a first run whose image fetches all
\* failed, which left no asset behind.
C10_Witness ==
    /\ FirstRunWrote
    /\ run = 2
    /\ pc = "done"
    /\ exit_code = 0
    /\ stderr = <<SkipWarning>>
    /\ DOMAIN fs.files = {}
    /\ Len(runs[1].stderr) >= 1

(***************************************************************************)
(* The math normalizer's claims.                                           *)
(***************************************************************************)
Replaced == math_pc = "done" /\ math_out # <<>>

Fence == <<"\n", "$", "$", "\n">>

\* A block fragment: newline, $$, newline, the trimmed source, newline, $$,
\* newline.  An inline fragment: the trimmed source between two $.
BlockForm(r) ==
    /\ Len(r) >= 8
    /\ SubSeq(r, 1, 4) = Fence
    /\ SubSeq(r, Len(r) - 3, Len(r)) = Fence
    /\ strip(SubSeq(r, 5, Len(r) - 4)) = SubSeq(r, 5, Len(r) - 4)

InlineForm(r) ==
    /\ Len(r) >= 2
    /\ r[1] = "$"
    /\ r[Len(r)] = "$"
    /\ strip(SubSeq(r, 2, Len(r) - 1)) = SubSeq(r, 2, Len(r) - 1)

HasLineBreak(t) == \E k \in 1..Len(t) : t[k] = "\n"

\* Inline, unless the trimmed source holds a line break, and then block.
InlineUnlessLineBreak(r) ==
    \/ InlineForm(r) /\ ~HasLineBreak(r)
    \/ BlockForm(r) /\ HasLineBreak(SubSeq(r, 5, Len(r) - 4))

DisplayContext ==
    { <<"l", "t", "x", "_", "d", "i", "s", "p", "l", "a", "y">>,
      <<"l", "t", "x", "_", "e", "q", "u", "a", "t", "i", "o", "n">>,
      <<"l", "t", "x", "_", "e", "q", "u", "a", "t", "i", "o", "n", "g", "r", "o", "u", "p">> }

\* Some ancestor element carries a class of the display-context set.
AncestorInContext ==
    \E a \in 1..Len(math.ancestors) :
        \E c \in 1..Len(math.ancestors[a]) : math.ancestors[a][c] \in DisplayContext

\* The parent is an element and one of its classes holds a display-context
\* name as a substring.
ParentInContext ==
    /\ math.ancestors # <<>>
    /\ \E c \in 1..Len(math.ancestors[1]) :
          \E name \in DisplayContext :
              \E k \in 0..(Len(math.ancestors[1][c]) - Len(name)) :
                  SubSeq(math.ancestors[1][c], k + 1, k + Len(name)) = name

DisplayIsBlock == math.display = <<"b", "l", "o", "c", "k">>

DisplayIsBlockAnyCase ==
    math.display \in { <<"b", "l", "o", "c", "k">>, <<"B", "L", "O", "C", "K">> }

\* C7 as stated: block when display is "block"; block when there is no
\* display attribute and an ancestor has a display-context class; inline when
\* neither holds, unless the trimmed source holds a line break.
C7_BlockByAncestor ==
    Replaced =>
        /\ DisplayIsBlock => BlockForm(math_out[1])
        /\ (math.display = <<>> /\ AncestorInContext) => BlockForm(math_out[1])
        /\ (~DisplayIsBlock /\ ~(math.display = <<>> /\ AncestorInContext)) =>
              InlineUnlessLineBreak(math_out[1])

\* C7, amended: block when display, lower-cased, is "block"; block when it is
\* not and the parent element has a class that holds a display-context name;
\* inline when neither holds, unless the trimmed source holds a line break.
C7_BlockByParent ==
    Replaced =>
        /\ DisplayIsBlockAnyCase => BlockForm(math_out[1])
        /\ (~DisplayIsBlockAnyCase /\ ParentInContext) => BlockForm(math_out[1])
        /\ (~DisplayIsBlockAnyCase /\ ~ParentInContext) =>
              InlineUnlessLineBreak(math_out[1])

\* A node without a display attribute, under an equation element, whose
\* one-line source was rendered as a block.
C7_Witness ==
    /\ Replaced
    /\ math.display = <<>>
    /\ ParentInContext
    /\ BlockForm(math_out[1])
    /\ ~HasLineBreak(SubSeq(math_out[1], 5, Len(math_out[1]) - 4))
    /\ Len(math_out[1]) > 8

\* The text of the first annotation whose encoding holds "tex" in any case
\* ("" if there is none), then alttext, then data-tex.
Extractors ==
    LET hits == {k \in 1..Len(math.annotations) :
                    \E n \in 0..(Len(math.annotations[k].encoding) - 3) :
                        lower(SubSeq(math.annotations[k].encoding, n + 1, n + 3))
                            = <<"t", "e", "x">>}
    IN << IF hits = {} THEN <<>>
          ELSE math.annotations[CHOOSE k \in hits : \A h \in hits : k <= h].text,
          math.alttext,
          math.datatex >>

\* C8: the source is the first of the three that is not empty once trimmed;
\* when there is none the node is left as it is, and no empty fragment is
\* produced.
C8_FirstNonEmptySource ==
    math_pc = "done" =>
        LET some == {k \in 1..3 : strip(Extractors[k]) # <<>>}
        IN IF some = {}
           THEN math_out = <<>>
           ELSE LET t == strip(Extractors[CHOOSE k \in some : \A h \in some : k <= h])
                IN \/ math_out = <<<<"$">> \o t \o <<"$">>>>
                   \/ math_out = <<Fence \o t \o Fence>>

====
